---- MODULE Spec2Model ----
(***************************************************************************)
(* Model of ai.js: the AIHelper wrapper around the Anthropic client.       *)
(*                                                                         *)
(* A JavaScript value that may be undefined is modelled as a set with at   *)
(* most one element: {} is undefined, {v} is the value v.                  *)
(*                                                                         *)
(* The client (@anthropic-ai/sdk) is outside the repository.  What the     *)
(* wrapper does with it is one thing: it invokes client.messages.create    *)
(* with a payload and awaits the promise.  "requests" records those        *)
(* invocations; the promise later resolves with a message or rejects with  *)
(* an error, both chosen by the environment.                               *)
(***************************************************************************)
EXTENDS Integers, Sequences, FiniteSets, TLC

\* ---------------------------------------------------------------- bounds
MaxInst  == 1   \* AIHelper instances constructed by an importing program
MaxAsks  == 2   \* invocations of ask (direct ones and those made by test)
MaxTests == 1   \* invocations of test

\* ------------------------------------------------------ program constants
DefaultModel      == "claude-sonnet-4-20250514"
DefaultMaxTokens  == 4000
TestMaxTokens     == 100
TestPrompt        == "Say \"Hello! API connection successful!\" and nothing else."
EnvNotSetMessage  == "ANTHROPIC_API_KEY environment variable not set"

\* ------------------------------------------------------------ JS helpers
Undefined == {}

Val(o) == CHOOSE x \in o : TRUE

\* JS truthiness of a possibly-undefined string: undefined and "" are falsy
Truthy(o) == o # Undefined /\ o # {""}

\* a || b
Or(a, b) == IF Truthy(a) THEN a ELSE b

\* destructuring default: `name = d` takes d exactly when the value is undefined
Default(o, d) == IF o = Undefined THEN d ELSE Val(o)

\* ------------------------------------------------------------ input sets
EnvVals == {Undefined, {"sk-env"}}
KeyArgs == {Undefined, {""}, {"sk-arg"}}

EmptyObject == [model |-> Undefined, maxTokens |-> Undefined, maxOutputTokens |-> Undefined]

\* (prompt, options) pairs an importing program passes to ask; an omitted
\* options argument is the default parameter value {} (EmptyObject)
AskInputs ==
    { [prompt |-> "Say X", options |-> EmptyObject],
      [prompt |-> "",      options |-> [EmptyObject EXCEPT !.model = {"claude-3-haiku"},
                                                          !.maxTokens = {256}]],
      [prompt |-> "Say X", options |-> [EmptyObject EXCEPT !.maxOutputTokens = {512}]],
      [prompt |-> "Say Y", options |-> [EmptyObject EXCEPT !.maxTokens = {0}]],
      [prompt |-> "Say Y", options |-> [EmptyObject EXCEPT !.maxTokens = {-1}]] }

TextBlock(t) == [type |-> "text", text |-> {t}]
ToolBlock    == [type |-> "tool_use", text |-> Undefined]

\* replies of the service: { content: [...], usage: {...} }
Messages ==
    { [content |-> <<TextBlock("X")>>,                 usage |-> 7],
      [content |-> <<TextBlock("X"), TextBlock("Z")>>, usage |-> 9],
      [content |-> <<ToolBlock, TextBlock("X")>>,      usage |-> 7],
      [content |-> <<>>,                               usage |-> 0] }

\* failures of the client call
ClientErrors ==
    { [name |-> "APIConnectionError", message |-> "Connection error."],
      [name |-> "RateLimitError",     message |-> "429 rate_limit_error"] }

\* what reading .text of undefined throws
TypeErrorNoContent ==
    [name |-> "TypeError", message |-> "Cannot read properties of undefined (reading 'text')"]

EnvNotSetError == [name |-> "Error", message |-> EnvNotSetMessage]

\* ----------------------------------------------------------------- state
VARIABLES
    direct,     \* TRUE: the module is the program's entry point; FALSE: it is imported
    env,        \* process.env.ANTHROPIC_API_KEY
    instances,  \* constructed AIHelper objects
    asks,       \* invocations of ask, in call order
    requests,   \* invocations of client.messages.create, in call order
    tests,      \* invocations of test, in call order
    console,    \* lines written by console.log / console.error, in order
    main        \* the direct run: position of example() and the exit code

vars == <<direct, env, instances, asks, requests, tests, console, main>>

Running == main.exitCode = Undefined

Init ==
    /\ direct \in BOOLEAN
    /\ env \in EnvVals
    /\ instances = <<>>
    /\ asks = <<>>
    /\ requests = <<>>
    /\ tests = <<>>
    /\ console = <<>>
    /\ main = [pc |-> IF direct THEN "start" ELSE "imported", test |-> 0, exitCode |-> Undefined]

\* ----------------------------------------------------------- constructor
\* variant of NewInstance that prefers the environment variable
NewInstanceEnvFirst(apiKey) ==
    [given |-> apiKey, envSeen |-> env, apiKey |-> Or(env, apiKey)]

NewInstance(apiKey) ==
    [given |-> apiKey, envSeen |-> env, apiKey |-> Or(apiKey, env)]

Construct(apiKey) ==
    /\ ~direct
    /\ Len(instances) < MaxInst
    /\ instances' = Append(instances, NewInstance(apiKey))
    /\ UNCHANGED <<direct, env, asks, requests, tests, console, main>>

\* the importing program changes the environment variable
SetEnv(v) ==
    /\ ~direct
    /\ v # env
    /\ env' = v
    /\ UNCHANGED <<direct, instances, asks, requests, tests, console, main>>

\* -------------------------------------------------------------------- ask
\* variants of Payload with a slip in one field
PayloadFixedMaxTokens(prompt, options) ==
    [model      |-> Default(options.model, DefaultModel),
     max_tokens |-> DefaultMaxTokens,
     messages   |-> <<[role |-> "user", content |-> prompt]>>]

PayloadFixedModel(prompt, options) ==
    [model      |-> DefaultModel,
     max_tokens |-> Default(options.maxTokens, DefaultMaxTokens),
     messages   |-> <<[role |-> "user", content |-> prompt]>>]

PayloadWithHistory(prompt, options) ==
    [model      |-> Default(options.model, DefaultModel),
     max_tokens |-> Default(options.maxTokens, DefaultMaxTokens),
     messages   |-> [k \in 1..(Len(asks) + 1) |->
                        [role |-> "user",
                         content |-> IF k <= Len(asks) THEN asks[k].prompt ELSE prompt]]]

\* variant of Payload whose defaults are taken with || (any falsy value)
PayloadFalsyDefaults(prompt, options) ==
    [model      |-> IF Truthy(options.model) THEN Val(options.model) ELSE DefaultModel,
     max_tokens |-> IF options.maxTokens = Undefined \/ options.maxTokens = {0}
                    THEN DefaultMaxTokens ELSE Val(options.maxTokens),
     messages   |-> <<[role |-> "user", content |-> prompt]>>]

Payload(prompt, options) ==
    [model      |-> Default(options.model, DefaultModel),
     max_tokens |-> Default(options.maxTokens, DefaultMaxTokens),
     messages   |-> <<[role |-> "user", content |-> prompt]>>]

NewAsk(i, prompt, options, t) ==
    [inst |-> i, prompt |-> prompt, options |-> options, test |-> t,
     state |-> "pending", reply |-> Undefined, failure |-> Undefined,
     value |-> Undefined, error |-> Undefined]

\* ask up to its await: destructure the options, call client.messages.create
AskStart(i, key, prompt, options, t) ==
    /\ asks' = Append(asks, NewAsk(i, prompt, options, t))
    /\ requests' = Append(requests,
          [ask |-> Len(asks) + 1, apiKey |-> key, payload |-> Payload(prompt, options)])

\* variant of Ask that resolves the credential again at every call
AskRereadsEnv(i, in) ==
    /\ ~direct
    /\ i \in DOMAIN instances
    /\ Len(asks) < MaxAsks
    /\ AskStart(i, Or(instances[i].given, env), in.prompt, in.options, 0)
    /\ UNCHANGED <<direct, env, instances, tests, console, main>>

Ask(i, in) ==
    /\ ~direct
    /\ i \in DOMAIN instances
    /\ Len(asks) < MaxAsks
    /\ AskStart(i, instances[i].apiKey, in.prompt, in.options, 0)
    /\ UNCHANGED <<direct, env, instances, tests, console, main>>

ErrorLine(label, error) == [stream |-> "stderr", label |-> label, arg |-> {error.message}]

\* variant of AskCatch that throws a new error built from the caught one
AskCatchWrapped(a, seen, error) ==
    /\ console' = Append(console, ErrorLine("AI Error:", error))
    /\ asks' = [seen EXCEPT ![a].state = "rejected",
                            ![a].error = {[name |-> "Error", message |-> error.message]}]

\* variant of AskCatch that rethrows without logging
AskCatchSilent(a, seen, error) ==
    /\ console' = console
    /\ asks' = [seen EXCEPT ![a].state = "rejected", ![a].error = {error}]

\* catch (error) { console.error(..., error.message); throw error; }
\* `seen` is asks with what the client call delivered recorded in it
AskCatch(a, seen, error) ==
    /\ console' = Append(console, ErrorLine("AI Error:", error))
    /\ asks' = [seen EXCEPT ![a].state = "rejected", ![a].error = {error}]

\* variant of FirstText reading the last content block
LastText(message) == message.content[Len(message.content)].text

\* message.content[0].text
FirstText(message) == message.content[1].text

\* variant of AskOnMessage in which a call is served only after the calls
\* made before it (a queue)
AskOnMessageQueued(a, message) ==
    /\ Running
    /\ a \in DOMAIN asks
    /\ asks[a].state = "pending"
    /\ \A b \in 1..(a - 1) : asks[b].state # "pending"
    /\ IF Len(message.content) = 0
       THEN AskCatch(a, [asks EXCEPT ![a].reply = {message}], TypeErrorNoContent)
       ELSE /\ asks' = [asks EXCEPT ![a].state = "fulfilled", ![a].reply = {message},
                                    ![a].value = FirstText(message)]
            /\ console' = console
    /\ UNCHANGED <<direct, env, instances, requests, tests, main>>

\* the client call resolved with `message`
AskOnMessage(a, message) ==
    /\ Running
    /\ a \in DOMAIN asks
    /\ asks[a].state = "pending"
    /\ IF Len(message.content) = 0
       THEN \* content[0] is undefined: reading .text throws inside the try
            AskCatch(a, [asks EXCEPT ![a].reply = {message}], TypeErrorNoContent)
       ELSE /\ asks' = [asks EXCEPT ![a].state = "fulfilled", ![a].reply = {message},
                                    ![a].value = FirstText(message)]
            /\ console' = console
    /\ UNCHANGED <<direct, env, instances, requests, tests, main>>

\* variant of AskOnError that calls the client a second time after a first failure
AskOnErrorRetry(a, error) ==
    /\ Running
    /\ a \in DOMAIN asks
    /\ asks[a].state = "pending"
    /\ IF asks[a].failure = Undefined
       THEN /\ requests' = Append(requests, requests[a])
            /\ asks' = [asks EXCEPT ![a].failure = {error}]
            /\ console' = console
       ELSE /\ AskCatch(a, [asks EXCEPT ![a].failure = {error}], error)
            /\ requests' = requests
    /\ UNCHANGED <<direct, env, instances, tests, main>>

\* the client call rejected with `error`
AskOnError(a, error) ==
    /\ Running
    /\ a \in DOMAIN asks
    /\ asks[a].state = "pending"
    /\ AskCatch(a, [asks EXCEPT ![a].failure = {error}], error)
    /\ UNCHANGED <<direct, env, instances, requests, tests, main>>

\* ------------------------------------------------------------------- test
OutLine(label, arg) == [stream |-> "stdout", label |-> label, arg |-> arg]

\* variant of TestOptions that leaves maxTokens to its default
TestOptionsEmpty == EmptyObject

TestOptions == [EmptyObject EXCEPT !.maxTokens = {TestMaxTokens}]

\* variant of TestKeyMissing that looks at the credential the instance holds
TestKeyMissingOnInstance(i, key) == ~Truthy(key)

\* the credential check of test(): reads the environment at the time of the call
TestKeyMissing(i, key) == ~Truthy(env)

\* test() up to its await, on instance i whose client holds `key`
TestStart(i, key) ==
    IF TestKeyMissing(i, key)
    THEN /\ tests' = Append(tests, [inst |-> i, envSeen |-> env, state |-> "rejected", ask |-> 0,
                                    value |-> Undefined, error |-> {EnvNotSetError}])
         /\ console' = Append(console, OutLine("Testing Claude API Connection...", Undefined))
         /\ UNCHANGED <<asks, requests>>
    ELSE /\ Len(asks) < MaxAsks
         /\ tests' = Append(tests, [inst |-> i, envSeen |-> env, state |-> "awaiting",
                                    ask |-> Len(asks) + 1,
                                    value |-> Undefined, error |-> Undefined])
         /\ console' = console \o
               << OutLine("Testing Claude API Connection...", Undefined),
                  OutLine("API key found in environment", Undefined),
                  OutLine("Sending test message...", Undefined) >>
         /\ AskStart(i, key, TestPrompt, TestOptions, Len(tests) + 1)

Test(i) ==
    /\ ~direct
    /\ i \in DOMAIN instances
    /\ Len(tests) < MaxTests
    /\ TestStart(i, instances[i].apiKey)
    /\ UNCHANGED <<direct, env, instances, main>>

\* variant of TestResume that reports success whatever ask did
TestResumeAlwaysReports(t) ==
    /\ Running
    /\ t \in DOMAIN tests
    /\ tests[t].state = "awaiting"
    /\ asks[tests[t].ask].state # "pending"
    /\ LET a == asks[tests[t].ask] IN
       /\ console' = console \o
             << OutLine("Response:", a.value),
                OutLine("SUCCESS! API is working.", Undefined) >>
       /\ IF a.state = "fulfilled"
          THEN tests' = [tests EXCEPT ![t].state = "fulfilled", ![t].value = a.value]
          ELSE tests' = [tests EXCEPT ![t].state = "rejected", ![t].error = a.error]
    /\ UNCHANGED <<direct, env, instances, asks, requests, main>>

\* test() after `await this.ask(...)`
TestResume(t) ==
    /\ Running
    /\ t \in DOMAIN tests
    /\ tests[t].state = "awaiting"
    /\ asks[tests[t].ask].state # "pending"
    /\ LET a == asks[tests[t].ask] IN
       IF a.state = "fulfilled"
       THEN /\ console' = console \o
                  << OutLine("Response:", a.value),
                     OutLine("SUCCESS! API is working.", Undefined) >>
            /\ tests' = [tests EXCEPT ![t].state = "fulfilled", ![t].value = a.value]
       ELSE /\ console' = console
            /\ tests' = [tests EXCEPT ![t].state = "rejected", ![t].error = a.error]
    /\ UNCHANGED <<direct, env, instances, asks, requests, main>>

\* ------------------------------------------------- example / entry point
\* example(): const ai = new AIHelper(); await ai.test();
MainStart ==
    /\ direct
    /\ main.pc = "start"
    /\ instances' = Append(instances, NewInstance(Undefined))
    /\ TestStart(Len(instances) + 1, Or(Undefined, env))
    /\ main' = [main EXCEPT !.pc = "awaiting", !.test = Len(tests) + 1]
    /\ UNCHANGED <<direct, env>>

\* variant of MainDone with the commented-out analysis call (line 97) active
MainDoneRunsAnalysis ==
    /\ main.pc = "awaiting"
    /\ tests[main.test].state = "fulfilled"
    /\ main' = [main EXCEPT !.pc = "done"]
    /\ AskStart(tests[main.test].inst, instances[tests[main.test].inst].apiKey,
                "Analyze the following data and provide insights:", EmptyObject, 0)
    /\ UNCHANGED <<direct, env, instances, tests, console>>

\* example() resolves: nothing after the test is executed
MainDone ==
    /\ main.pc = "awaiting"
    /\ tests[main.test].state = "fulfilled"
    /\ main' = [main EXCEPT !.pc = "done"]
    /\ UNCHANGED <<direct, env, instances, asks, requests, tests, console>>

\* variant of MainCatch that exits with code 0
MainCatchExitZero ==
    /\ main.pc = "awaiting"
    /\ tests[main.test].state = "rejected"
    /\ console' = Append(console, ErrorLine("Error:", Val(tests[main.test].error)))
    /\ main' = [main EXCEPT !.pc = "exited", !.exitCode = {0}]
    /\ UNCHANGED <<direct, env, instances, asks, requests, tests>>

\* example().catch(error => { console.error(..., error.message); process.exit(1); })
MainCatch ==
    /\ main.pc = "awaiting"
    /\ tests[main.test].state = "rejected"
    /\ console' = Append(console, ErrorLine("Error:", Val(tests[main.test].error)))
    /\ main' = [main EXCEPT !.pc = "exited", !.exitCode = {1}]
    /\ UNCHANGED <<direct, env, instances, asks, requests, tests>>

\* ------------------------------------------------------------------ spec
Next ==
    \/ \E k \in KeyArgs : Construct(k)
    \/ \E v \in EnvVals : SetEnv(v)
    \/ \E i \in 1..MaxInst, in \in AskInputs : Ask(i, in)
    \/ \E a \in 1..MaxAsks, m \in Messages : AskOnMessage(a, m)
    \/ \E a \in 1..MaxAsks, e \in ClientErrors : AskOnError(a, e)
    \/ \E i \in 1..MaxInst : Test(i)
    \/ \E t \in 1..MaxTests : TestResume(t)
    \/ MainStart
    \/ MainDone
    \/ MainCatch

Spec == Init /\ [][Next]_vars

\* ---------------------------------------------------------------- claims
RequestsOf(a) == {q \in DOMAIN requests : requests[q].ask = a}
RequestsOfTest(t) == {q \in DOMAIN requests : asks[requests[q].ask].test = t}

\* C2: when the client call of an ask resolved with a reply whose first
\* content block carries a text, the ask is fulfilled with exactly that text;
\* the later blocks and the usage field play no part.
C2_FirstBlockText ==
    \A a \in DOMAIN asks :
        LET r == asks[a].reply IN
        (r # Undefined /\ Len(Val(r).content) > 0 /\ Val(r).content[1].text # Undefined)
            => /\ asks[a].state = "fulfilled"
               /\ asks[a].value = Val(r).content[1].text

\* an ask fulfilled from a reply with two blocks of different texts
C2_Witness ==
    \E a \in DOMAIN asks :
        /\ asks[a].state = "fulfilled"
        /\ Len(Val(asks[a].reply).content) = 2
        /\ Val(asks[a].reply).content[2].text # Val(asks[a].reply).content[1].text
        /\ asks[a].value = {"X"}

\* C3: when the client call of an ask rejected with error E, the ask is
\* rejected with E itself (same name, same message) and is never fulfilled.
C3_SameErrorRethrown ==
    \A a \in DOMAIN asks :
        asks[a].failure # Undefined
            => /\ asks[a].state = "rejected"
               /\ asks[a].error = asks[a].failure
               /\ asks[a].value = Undefined

\* an ask rejected after its client call failed with a rate-limit error
C3_Witness ==
    \E a \in DOMAIN asks :
        /\ asks[a].state = "rejected"
        /\ asks[a].failure # Undefined
        /\ Val(asks[a].failure).name = "RateLimitError"

\* C4 as stated: max_tokens of the payload is the value given under the
\* option name maxOutputTokens, and 4000 when that option is omitted.
C4_AsStated ==
    \A q \in DOMAIN requests :
        requests[q].payload.max_tokens =
            Default(asks[requests[q].ask].options.maxOutputTokens, 4000)

\* C4 (amended): max_tokens of the payload is the value given under the
\* option name maxTokens, and 4000 when that option is omitted (undefined).
C4_MaxTokensOption ==
    \A q \in DOMAIN requests :
        LET given == asks[requests[q].ask].options.maxTokens IN
        /\ given # Undefined => {requests[q].payload.max_tokens} = given
        /\ given = Undefined => requests[q].payload.max_tokens = 4000

\* one request made with maxTokens supplied and one with it omitted
C4_Witness ==
    \E q1, q2 \in DOMAIN requests :
        /\ asks[requests[q1].ask].options.maxTokens = {256}
        /\ requests[q1].payload.max_tokens = 256
        /\ asks[requests[q2].ask].options.maxTokens = Undefined
        /\ asks[requests[q2].ask].options.maxOutputTokens = {512}
        /\ requests[q2].payload.max_tokens = 4000

\* C5: the model of the payload is the model given in the options, and
\* 'claude-sonnet-4-20250514' when the option is omitted.
C5_ModelOption ==
    \A q \in DOMAIN requests :
        LET given == asks[requests[q].ask].options.model IN
        /\ given # Undefined => {requests[q].payload.model} = given
        /\ given = Undefined => requests[q].payload.model = "claude-sonnet-4-20250514"

\* one request made with a model supplied and one with it omitted
C5_Witness ==
    \E q1, q2 \in DOMAIN requests :
        /\ asks[requests[q1].ask].options.model = {"claude-3-haiku"}
        /\ requests[q1].payload.model = "claude-3-haiku"
        /\ asks[requests[q2].ask].options.model = Undefined
        /\ requests[q2].payload.model = "claude-sonnet-4-20250514"

\* C6: a call of test() made while ANTHROPIC_API_KEY is unset is rejected
\* with the error 'ANTHROPIC_API_KEY environment variable not set', and it
\* has invoked neither ask nor the client.
C6_TestThrowsWhenEnvUnset ==
    \A t \in DOMAIN tests :
        tests[t].envSeen = Undefined
            => /\ tests[t].state = "rejected"
               /\ tests[t].error =
                     {[name |-> "Error",
                       message |-> "ANTHROPIC_API_KEY environment variable not set"]}
               /\ tests[t].ask = 0
               /\ RequestsOfTest(t) = {}

\* test() called with the variable unset on an instance built with an explicit key
C6_Witness ==
    \E t \in DOMAIN tests :
        /\ tests[t].envSeen = Undefined
        /\ tests[t].state = "rejected"
        /\ instances[tests[t].inst].apiKey = {"sk-arg"}

\* C7 as stated: test() fails with the missing-credential error exactly when
\* the instance holds no credential, and sends the diagnostic prompt whenever
\* the instance holds one, from the constructor argument or the environment.
C7_AsStated ==
    \A t \in DOMAIN tests :
        LET held == Truthy(instances[tests[t].inst].apiKey) IN
        /\ (tests[t].error = {EnvNotSetError}) <=> ~held
        /\ held => RequestsOfTest(t) # {}

\* C8: every invocation of ask has invoked client.messages.create exactly
\* once, whether the call is pending, succeeded or failed, and whatever the
\* failure was: no second attempt follows a failure.
C8_OneCallPerAsk ==
    \A a \in DOMAIN asks : Cardinality(RequestsOf(a)) = 1

\* both kinds of failure have happened, each ask with its single call
C8_Witness ==
    \E a, b \in DOMAIN asks :
        /\ asks[a].state = "rejected" /\ asks[b].state = "rejected"
        /\ asks[a].failure # Undefined /\ asks[b].failure # Undefined
        /\ Val(asks[a].failure).name = "APIConnectionError"
        /\ Val(asks[b].failure).name = "RateLimitError"

\* C9: the payload of every ask holds exactly one message, of role 'user'
\* and with the prompt of that ask as content, and no field besides model,
\* max_tokens and messages (no system instruction), whatever was asked and
\* answered before on the instance.
C9_SingleUserMessage ==
    \A q \in DOMAIN requests :
        /\ requests[q].payload.messages =
              <<[role |-> "user", content |-> asks[requests[q].ask].prompt]>>
        /\ DOMAIN requests[q].payload = {"model", "max_tokens", "messages"}

\* a second ask on an instance whose first ask, with another prompt, was answered
C9_Witness ==
    \E q \in DOMAIN requests :
        /\ requests[q].ask = 2
        /\ asks[1].inst = asks[2].inst
        /\ asks[1].state = "fulfilled"
        /\ asks[1].prompt # asks[2].prompt

\* C10: in a direct run, once the catch handler of the entry point has run
\* the diagnostic call had failed, its message is the last line on standard
\* error and the exit code is 1; a run whose diagnostic call failed never
\* completes normally, and a run whose diagnostic call succeeded is not
\* terminated by an exit code.
C10_DirectRunExit ==
    direct =>
        /\ main.pc = "exited" =>
              /\ tests[main.test].state = "rejected"
              /\ main.exitCode = {1}
              /\ console[Len(console)] =
                    [stream |-> "stderr", label |-> "Error:",
                     arg |-> {Val(tests[main.test].error).message}]
        /\ main.pc = "done" =>
              /\ tests[main.test].state = "fulfilled"
              /\ main.exitCode = Undefined
        /\ main.exitCode # Undefined => main.pc = "exited"
        /\ (main.test # 0 /\ tests[main.test].state = "rejected" /\ main.pc # "exited")
              => ENABLED MainCatch

\* a direct run that exited after the client call of its diagnostic failed
C10_Witness ==
    /\ direct
    /\ main.pc = "exited"
    /\ tests[main.test].ask # 0
    /\ asks[tests[main.test].ask].failure # Undefined

\* C11: with any number of asks in flight on an instance, in any order of
\* replies and failures, the outcome of an ask is that of its own client call:
\* fulfilled with the first-block text of its own reply, or rejected with its
\* own failure (the error of its client call, or the TypeError raised on its
\* own reply when that has no content block); and a pending ask can be
\* answered whatever the state of the other asks (none waits for another).
C11_CallsIndependent ==
    \A a \in DOMAIN asks :
        /\ asks[a].state = "fulfilled" =>
              /\ asks[a].reply # Undefined /\ asks[a].failure = Undefined
              /\ asks[a].value = Val(asks[a].reply).content[1].text
        /\ asks[a].state = "rejected" =>
              \/ /\ asks[a].failure # Undefined /\ asks[a].reply = Undefined
                 /\ asks[a].error = asks[a].failure
              \/ /\ asks[a].reply # Undefined /\ asks[a].failure = Undefined
                 /\ Val(asks[a].reply).content = <<>>
                 /\ Val(asks[a].error).name = "TypeError"
        /\ asks[a].state = "pending" =>
              /\ asks[a].reply = Undefined /\ asks[a].failure = Undefined
              /\ Running => \A m \in Messages : ENABLED AskOnMessage(a, m)
              /\ Running => \A e \in ClientErrors : ENABLED AskOnError(a, e)

\* two asks in flight on one instance; the later one was answered first and
\* the earlier one then failed
C11_Witness ==
    /\ Len(asks) >= 2
    /\ asks[1].inst = asks[2].inst
    /\ asks[1].prompt # asks[2].prompt
    /\ asks[2].state = "fulfilled" /\ asks[2].value = {"X"}
    /\ asks[1].state = "rejected" /\ asks[1].failure # Undefined
    /\ console[Len(console)] = [stream |-> "stderr", label |-> "AI Error:",
                                arg |-> {Val(asks[1].failure).message}]

\* C12: the credential of the client is the constructor argument when one is
\* passed (a non-empty string), and the value the environment variable had at
\* construction when none is passed (undefined or the empty string).
C12_ExplicitCredentialFirst ==
    \A i \in DOMAIN instances :
        /\ Truthy(instances[i].given) => instances[i].apiKey = instances[i].given
        /\ ~Truthy(instances[i].given) => instances[i].apiKey = instances[i].envSeen

\* an instance built with an explicit key while the variable was set
C12_Witness ==
    \E i \in DOMAIN instances :
        /\ instances[i].given = {"sk-arg"}
        /\ instances[i].envSeen = {"sk-env"}
        /\ instances[i].apiKey = {"sk-arg"}

\* C13: every client call of an instance is made with the credential
\* determined at its construction, whatever asks and tests came before and
\* whatever the environment variable has become since.
C13_CredentialFixed ==
    \A q \in DOMAIN requests :
        LET i == asks[requests[q].ask].inst IN
        /\ requests[q].apiKey = Or(instances[i].given, instances[i].envSeen)
        /\ requests[q].apiKey = instances[i].apiKey

\* a call made after an earlier ask failed and after the variable, unset at
\* construction, was set
C13_Witness ==
    \E q \in DOMAIN requests :
        LET i == asks[requests[q].ask].inst IN
        /\ q = 2
        /\ asks[1].inst = i /\ asks[1].state = "rejected"
        /\ asks[2].test = 0
        /\ instances[i].given = Undefined /\ instances[i].envSeen = Undefined
        /\ env = {"sk-env"}
        /\ requests[q].apiKey = Undefined

ErrorLinesOfAsk == {k \in DOMAIN console : console[k].label = "AI Error:"}
LinesLabelled(l) == {k \in DOMAIN console : console[k].label = l}
RejectedAsks == {a \in DOMAIN asks : asks[a].state = "rejected"}

\* C14: at every moment the error lines written by ask are as many as the
\* asks that have been rejected (one per failing ask, none for an ask that is
\* pending or fulfilled); the line of a rejected ask is on standard error and
\* carries the message of its error and nothing else of it, and it is already
\* written when the ask is rejected.
C14_OneErrorLinePerFailure ==
    /\ Cardinality(ErrorLinesOfAsk) = Cardinality(RejectedAsks)
    /\ \A a \in RejectedAsks :
          \E k \in ErrorLinesOfAsk :
              console[k] = [stream |-> "stderr", label |-> "AI Error:",
                            arg |-> {Val(asks[a].error).message}]
    /\ \A k \in ErrorLinesOfAsk :
          \E a \in RejectedAsks : console[k].arg = {Val(asks[a].error).message}

\* one ask failed and was logged, another succeeded and was not
C14_Witness ==
    \E a, b \in DOMAIN asks :
        /\ asks[a].state = "rejected" /\ asks[a].failure # Undefined
        /\ asks[b].state = "fulfilled"
        /\ Cardinality(ErrorLinesOfAsk) = 1

\* C15 as stated: whenever ask is fulfilled its value is a string, never
\* undefined, whatever the shape of the reply.
C15_AsStated ==
    \A a \in DOMAIN asks :
        asks[a].state = "fulfilled" => asks[a].value # Undefined

\* C16: a call of test() made with the environment variable set has invoked
\* ask exactly once, with the diagnostic prompt, max_tokens 100 and the default
\* model; when it is fulfilled its value is the value of that ask, and when it
\* is rejected its error is the error of that ask.
C16_TestWrapsOneAsk ==
    \A t \in DOMAIN tests :
        Truthy(tests[t].envSeen) =>
            LET a == tests[t].ask IN
            /\ {b \in DOMAIN asks : asks[b].test = t} = {a}
            /\ asks[a].prompt = "Say \"Hello! API connection successful!\" and nothing else."
            /\ \A q \in RequestsOf(a) :
                  /\ requests[q].payload.max_tokens = 100
                  /\ requests[q].payload.model = "claude-sonnet-4-20250514"
                  /\ requests[q].payload.messages[1].content = asks[a].prompt
            /\ Cardinality(RequestsOf(a)) = 1
            /\ tests[t].state = "awaiting" => tests[t].value = Undefined /\ tests[t].error = Undefined
            /\ tests[t].state = "fulfilled" =>
                  asks[a].state = "fulfilled" /\ tests[t].value = asks[a].value
            /\ tests[t].state = "rejected" =>
                  asks[a].state = "rejected" /\ tests[t].error = asks[a].error

\* a test fulfilled with the text of its ask
C16_Witness ==
    \E t \in DOMAIN tests :
        /\ Truthy(tests[t].envSeen)
        /\ tests[t].state = "fulfilled"
        /\ tests[t].value = {"X"}

\* C17: at every moment the success lines written are as many as the tests
\* that have been fulfilled, so none is written for a test that is awaiting or
\* rejected; a fulfilled test has an ask that received its reply and was
\* fulfilled, and the response and success lines follow each other; and a
\* test that has made a client call has its 'API key found' line written.
C17_SuccessOnlyAfterReply ==
    /\ Cardinality(LinesLabelled("SUCCESS! API is working.")) =
          Cardinality({t \in DOMAIN tests : tests[t].state = "fulfilled"})
    /\ Cardinality(LinesLabelled("API key found in environment")) =
          Cardinality({t \in DOMAIN tests : tests[t].ask # 0})
    /\ \A t \in DOMAIN tests :
          /\ tests[t].state = "fulfilled" =>
                /\ asks[tests[t].ask].state = "fulfilled"
                /\ asks[tests[t].ask].reply # Undefined
                /\ \E k \in LinesLabelled("SUCCESS! API is working.") :
                      /\ k > 1
                      /\ console[k - 1] = [stream |-> "stdout", label |-> "Response:",
                                           arg |-> asks[tests[t].ask].value]
          /\ RequestsOfTest(t) # {} => tests[t].ask # 0

\* a test whose ask was rejected, with no success line, and the key line written
C17_Witness ==
    \E t \in DOMAIN tests :
        /\ tests[t].state = "rejected"
        /\ tests[t].ask # 0
        /\ LinesLabelled("SUCCESS! API is working.") = {}
        /\ LinesLabelled("API key found in environment") # {}

\* C18: every ask has made its client call with the prompt, the supplied
\* model and the supplied maxTokens passed through unchanged (the empty
\* prompt, zero and negative values included), and an ask is rejected only
\* after its client call has answered, never before the call.
C18_NoValidation ==
    \A a \in DOMAIN asks :
        /\ RequestsOf(a) # {}
        /\ \A q \in RequestsOf(a) :
              /\ requests[q].payload.messages[1].content = asks[a].prompt
              /\ asks[a].options.model # Undefined =>
                    {requests[q].payload.model} = asks[a].options.model
              /\ asks[a].options.maxTokens # Undefined =>
                    {requests[q].payload.max_tokens} = asks[a].options.maxTokens
        /\ asks[a].state = "rejected" =>
              (asks[a].reply # Undefined \/ asks[a].failure # Undefined)

\* on an instance holding a credential: an ask with the empty prompt and an
\* ask with maxTokens zero
C18_Witness ==
    \E q1, q2 \in DOMAIN requests :
        /\ Truthy(requests[q1].apiKey) /\ Truthy(requests[q2].apiKey)
        /\ requests[q1].payload.messages[1].content = ""
        /\ asks[requests[q2].ask].options.maxTokens = {0}
        /\ requests[q2].payload.max_tokens = 0

\* C19: a direct run makes at most one call of test, of ask and of the
\* client, all of them by the diagnostic; a run that completed made exactly
\* one client call and none after the test.
C19_DirectRunOneCall ==
    direct =>
        /\ Len(tests) <= 1 /\ Len(asks) <= 1 /\ Len(requests) <= 1
        /\ \A a \in DOMAIN asks : asks[a].test = main.test /\ main.test # 0
        /\ main.pc = "done" => Len(requests) = 1

\* a direct run that completed after a successful diagnostic
C19_Witness ==
    /\ direct
    /\ main.pc = "done"
    /\ Len(requests) = 1

====
